---- MODULE Spec2Model ----
(***************************************************************************)
(* Model of import-clips.py: a one-shot script that loads the JSON catalog *)
(* soundclips.json, appends a record for every '.mp3' entry of the         *)
(* audio-clips directory whose relative path is not yet catalogued, and    *)
(* writes the catalog back.                                                *)
(*                                                                         *)
(* Strings whose characters matter (entry names, paths, clip names) are    *)
(* sequences of one-character strings.                                     *)
(***************************************************************************)
EXTENDS Naturals, Sequences, FiniteSets

VARIABLES
    file,       \* content of soundclips.json on disk
    dir,        \* set of entry names of the audio-clips directory
    pc,         \* position of the running script
    data,       \* the loaded document (Python: data)
    existing,   \* Python: existing_files
    listing,    \* the list os.listdir returned
    idx,        \* position of the for loop in listing
    printed,    \* the completion message was printed by this run
    failedAt,   \* the step whose exception ended this run
    pre,        \* history: content of the catalog file when this run started
    idem,       \* history: the previous run completed and dir did not change since
    runs,       \* history: number of runs started
    startUnique,\* history: the file values of the first catalog were pairwise distinct
    inst,       \* two-instance model: the local state of each instance
    lastSaver,  \* two-instance model: the instance that saved last (0: none)
    written     \* two-instance model: what each instance saved

vars == <<file, dir, pc, data, existing, listing, idx, printed, failedAt,
          pre, idem, runs, startUnique, inst, lastSaver, written>>

-----------------------------------------------------------------------------
(* Bounds *)

MaxDirSize == 2
MaxInitClips == 1
MaxRuns == 2

-----------------------------------------------------------------------------
(* Strings *)

Mp3Ext == <<".", "m", "p", "3">>

Prefix == <<"a", "u", "d", "i", "o", "-", "c", "l", "i", "p", "s", "/">>

\* faulty variant: a string equal to the suffix does not end with it
EndsWithNoEmpty(s, suffix) ==
    /\ Len(s) > Len(suffix)
    /\ SubSeq(s, Len(s) - Len(suffix) + 1, Len(s)) = suffix

\* str.lower on the letters the entry names use
Lower(c) ==
    IF c = "M" THEN "m" ELSE IF c = "P" THEN "p" ELSE IF c = "T" THEN "t"
    ELSE IF c = "X" THEN "x" ELSE c

\* faulty variant: the suffix is compared ignoring case
EndsWithIgnoreCase(s, suffix) ==
    /\ Len(s) >= Len(suffix)
    /\ [i \in 1..Len(suffix) |-> Lower(s[Len(s) - Len(suffix) + i])] = suffix

\* str.endswith
EndsWith(s, suffix) ==
    /\ Len(s) >= Len(suffix)
    /\ SubSeq(s, Len(s) - Len(suffix) + 1, Len(s)) = suffix

\* str.rfind of one character: the last 1-based position, 0 when absent
RFind(s, c) ==
    LET hits == {i \in 1..Len(s) : s[i] = c}
    IN  IF hits = {} THEN 0 ELSE CHOOSE i \in hits : \A j \in hits : j <= i

\* faulty variant: the root is cut at the last dot, leading dots or not
SplitextRoot(p) ==
    LET dotIndex == RFind(p, ".")
        sepIndex == RFind(p, "/")
    IN  IF dotIndex > sepIndex THEN SubSeq(p, 1, dotIndex - 1) ELSE p

\* os.path.splitext(p)[0]: the root is cut at the last dot after the last
\* separator, unless only dots lie between that separator and the last dot
Splitext0(p) ==
    LET dotIndex == RFind(p, ".")
        sepIndex == RFind(p, "/")
    IN  IF /\ dotIndex > sepIndex
           /\ \E i \in (sepIndex + 1)..(dotIndex - 1) : p[i] # "."
        THEN SubSeq(p, 1, dotIndex - 1)
        ELSE p

\* f"audio-clips/{mp3_file}"
RelativePath(mp3_file) == Prefix \o mp3_file

-----------------------------------------------------------------------------
(* JSON values *)

\* an element of the clips array
Clip(name, path) == [t |-> "obj", hasFile |-> TRUE, name |-> name, file |-> path]

ObjNoFile == [t |-> "obj", hasFile |-> FALSE, name |-> <<"n">>, file |-> <<>>]

StrElem(s) == [t |-> "str", hasFile |-> FALSE, name |-> s, file |-> <<>>]

\* the value under the key clips
ClipsVal(t, items) == [t |-> t, items |-> items]

NoClips == ClipsVal("null", <<>>)

\* a JSON document
Doc(t, hasClips, clips) == [t |-> t, hasClips |-> hasClips, clips |-> clips]

NullDoc == Doc("null", FALSE, NoClips)

Catalog(items) == Doc("obj", TRUE, ClipsVal("list", items))

\* the catalog file on disk
FileOf(kind, fmt, doc) == [kind |-> kind, fmt |-> fmt, doc |-> doc]

Missing == FileOf("missing", "none", NullDoc)

Unreadable == FileOf("unreadable", "none", NullDoc)

Invalid == FileOf("invalid", "none", NullDoc)

Empty == FileOf("empty", "none", NullDoc)

-----------------------------------------------------------------------------
(* File access *)

\* faulty variant: the open for reading truncates the file (mode 'w+')
OpenReadTruncating(f) == Empty

\* open(json_path, 'r'): the content of the file after the open
OpenRead(f) == f

\* open(json_path, 'r') and json.load succeed
LoadOK(f) == f.kind = "json"

\* json.load
JsonLoad(f) == f.doc

\* faulty variant: the open for writing keeps the content (mode 'a')
OpenAppend(f) == f

\* open(json_path, 'w'): the content of the file after the open
OpenWrite(f) == Empty

\* json.dump(data, json_file, indent=4) into the file just opened
JsonDump(f, d) ==
    IF f.kind = "empty" THEN FileOf("json", "indent4", d) ELSE Invalid

-----------------------------------------------------------------------------
(* The reconciliation *)

\* data["clips"] evaluates
HasClipsKey(d) == d.t = "obj" /\ d.hasClips

\* "for clip in data['clips']" iterates: a list yields its elements, an
\* object its keys, a string its characters
Iterable(c) == c.t \in {"list", "obj", "str"}

\* clip["file"] evaluates
HasFileKey(clip) == clip.t = "obj" /\ clip.hasFile

\* the set comprehension of existing_files raises nothing
BuildOK(d) ==
    /\ HasClipsKey(d)
    /\ Iterable(d.clips)
    /\ \A i \in 1..Len(d.clips.items) : HasFileKey(d.clips.items[i])

\* faulty variant: the set of existing file values is left empty
NoExistingFiles(d) == {}

\* existing_files = {clip["file"] for clip in data["clips"]}
ExistingFiles(d) == {d.clips.items[i].file : i \in 1..Len(d.clips.items)}

\* data["clips"].append exists
CanAppend(d) == d.clips.t = "list"

\* faulty variant: the record is inserted at the front of the list
PrependClip(d, rec) == [d EXCEPT !.clips.items = <<rec>> \o @]

\* data["clips"].append(rec)
AppendClip(d, rec) == [d EXCEPT !.clips.items = Append(@, rec)]

\* {"name": clip_name, "file": relative_path}
NewClip(mp3_file) == Clip(Splitext0(mp3_file), RelativePath(mp3_file))

\* one iteration of the for loop; ok = FALSE when it raised
ScanEntry(d, ex, mp3_file) ==
    IF EndsWith(mp3_file, Mp3Ext) /\ RelativePath(mp3_file) \notin ex
    THEN IF CanAppend(d)
         THEN [ok |-> TRUE, data |-> AppendClip(d, NewClip(mp3_file))]
         ELSE [ok |-> FALSE, data |-> d]
    ELSE [ok |-> TRUE, data |-> d]

\* the whole for loop over a listing, from position i
RECURSIVE ScanFrom(_, _, _, _)
ScanFrom(d, ex, l, i) ==
    IF i > Len(l) THEN [ok |-> TRUE, data |-> d]
    ELSE LET r == ScanEntry(d, ex, l[i])
         IN  IF r.ok THEN ScanFrom(r.data, ex, l, i + 1) ELSE r

\* the orders in which os.listdir may yield the entries of a directory
Listings(d) ==
    {l \in [1..Cardinality(d) -> d] : \A i, j \in DOMAIN l : i # j => l[i] # l[j]}

-----------------------------------------------------------------------------
(* Inputs *)

EntryNames ==
    { <<"a", ".", "m", "p", "3">>,
      Mp3Ext,
      <<".", ".", "m", "p", "3">>,
      <<"a", ".", "b", ".", "m", "p", "3">>,
      <<"a", ".", "M", "P", "3">>,
      <<"n", ".", "t", "x", "t">> }

Dirs == {d \in SUBSET EntryNames : Cardinality(d) <= MaxDirSize}

InitElems ==
    { Clip(<<"a">>, RelativePath(<<"a", ".", "m", "p", "3">>)),
      Clip(<<"z">>, RelativePath(Mp3Ext)),
      Clip(<<"x">>, <<"x", ".", "m", "p", "3">>),
      ObjNoFile,
      StrElem(<<"s">>) }

RECURSIVE SeqsUpTo(_, _)
SeqsUpTo(S, n) ==
    IF n = 0 THEN {<<>>}
    ELSE LET shorter == SeqsUpTo(S, n - 1)
         IN  shorter \cup {Append(s, x) : s \in {q \in shorter : Len(q) = n - 1}, x \in S}

InitDocs ==
    {Catalog(items) : items \in SeqsUpTo(InitElems, MaxInitClips)}
    \cup { Doc("obj", FALSE, NoClips),
           Doc("list", FALSE, NoClips),
           NullDoc,
           Doc("obj", TRUE, NoClips),
           Doc("obj", TRUE, ClipsVal("num", <<>>)),
           Doc("obj", TRUE, ClipsVal("obj", <<>>)),
           Doc("obj", TRUE, ClipsVal("obj", <<StrElem(<<"k">>)>>)),
           Doc("obj", TRUE, ClipsVal("str", <<>>)),
           Doc("obj", TRUE, ClipsVal("str", <<StrElem(<<"c">>)>>)) }

InitFiles ==
    {Missing, Unreadable, Invalid, Empty}
    \cup {FileOf("json", fmt, d) : fmt \in {"compact", "indent4"}, d \in InitDocs}

-----------------------------------------------------------------------------
(* One instance, run repeatedly *)

\* the instances of the two-instance model
Procs == {1, 2}

InstIdle == [pc |-> "load", data |-> NullDoc, existing |-> {}, listing |-> <<>>]

raceVars == <<startUnique, inst, lastSaver, written>>

\* no two elements of a clips value carry the same file value
UniqueFiles(items) ==
    \A i, j \in 1..Len(items) :
        (i # j /\ HasFileKey(items[i]) /\ HasFileKey(items[j]))
            => items[i].file # items[j].file

RaceIdle ==
    /\ inst = [p \in Procs |-> InstIdle]
    /\ lastSaver = 0
    /\ written = [p \in Procs |-> NullDoc]

Init ==
    /\ file \in InitFiles
    /\ dir \in Dirs
    /\ pc = "load"
    /\ data = NullDoc
    /\ existing = {}
    /\ listing = <<>>
    /\ idx = 1
    /\ printed = FALSE
    /\ failedAt = "none"
    /\ pre = file
    /\ idem = FALSE
    /\ runs = 1
    /\ startUnique = UniqueFiles(file.doc.clips.items)
    /\ RaceIdle

\* an uncaught exception ends the run
Raise(step) ==
    /\ pc' = "failed"
    /\ failedAt' = step

\* lines 8-9: with open(json_path, 'r') as json_file: data = json.load(json_file)
Load ==
    /\ pc = "load"
    /\ LET f == OpenRead(file)
       IN  /\ file' = f
           /\ IF LoadOK(f)
              THEN /\ data' = JsonLoad(f)
                   /\ pc' = "build"
                   /\ UNCHANGED failedAt
              ELSE /\ Raise("load")
                   /\ UNCHANGED data
    /\ UNCHANGED <<dir, existing, listing, idx, printed, pre, idem, runs, raceVars>>

\* line 12: existing_files = {clip["file"] for clip in data["clips"]}
BuildExisting ==
    /\ pc = "build"
    /\ IF BuildOK(data)
       THEN /\ existing' = ExistingFiles(data)
            /\ pc' = "list"
            /\ UNCHANGED failedAt
       ELSE /\ Raise("build")
            /\ UNCHANGED existing
    /\ UNCHANGED <<file, dir, data, listing, idx, printed, pre, idem, runs, raceVars>>

\* line 15: os.listdir(audio_clips_path) returns the entries in some order
ListDir ==
    /\ pc = "list"
    /\ \E l \in Listings(dir) : listing' = l
    /\ idx' = 1
    /\ pc' = "scan"
    /\ UNCHANGED <<file, dir, data, existing, printed, failedAt, pre, idem, runs, raceVars>>

\* line 15: os.listdir raises (the directory is unreadable)
ListDirFails ==
    /\ pc = "list"
    /\ Raise("list")
    /\ UNCHANGED <<file, dir, data, existing, listing, idx, printed, pre, idem, runs, raceVars>>

\* lines 15-20: one iteration of the for loop
ScanStep ==
    /\ pc = "scan"
    /\ idx <= Len(listing)
    /\ LET r == ScanEntry(data, existing, listing[idx])
       IN  IF r.ok
           THEN /\ data' = r.data
                /\ idx' = idx + 1
                /\ UNCHANGED <<pc, failedAt>>
           ELSE /\ Raise("scan")
                /\ UNCHANGED <<data, idx>>
    /\ UNCHANGED <<file, dir, existing, listing, printed, pre, idem, runs, raceVars>>

\* lines 23-24: with open(json_path, 'w') as json_file: json.dump(...)
Save ==
    /\ pc = "scan"
    /\ idx > Len(listing)
    /\ file' = JsonDump(OpenWrite(file), data)
    /\ pc' = "print"
    /\ UNCHANGED <<dir, data, existing, listing, idx, printed, failedAt, pre, idem, runs, raceVars>>

\* line 23: the open for writing raises; the file is left as it was
SaveOpenFails ==
    /\ pc = "scan"
    /\ idx > Len(listing)
    /\ Raise("save")
    /\ UNCHANGED <<file, dir, data, existing, listing, idx, printed, pre, idem, runs, raceVars>>

\* line 24: the write raises after the open truncated the file; nothing or
\* a part of the document was written
SaveWriteFails ==
    /\ pc = "scan"
    /\ idx > Len(listing)
    /\ file' \in {OpenWrite(file), Invalid}
    /\ Raise("save")
    /\ UNCHANGED <<dir, data, existing, listing, idx, printed, pre, idem, runs, raceVars>>

\* line 26: print(f"New clips added to {json_path}")
PrintDone ==
    /\ pc = "print"
    /\ printed' = TRUE
    /\ pc' = "done"
    /\ UNCHANGED <<file, dir, data, existing, listing, idx, failedAt, pre, idem, runs, raceVars>>

\* the operator starts the script again
Invoke ==
    /\ pc \in {"done", "failed"}
    /\ runs < MaxRuns
    /\ runs' = runs + 1
    /\ pre' = file
    /\ idem' = (pc = "done")
    /\ pc' = "load"
    /\ data' = NullDoc
    /\ existing' = {}
    /\ listing' = <<>>
    /\ idx' = 1
    /\ printed' = FALSE
    /\ failedAt' = "none"
    /\ UNCHANGED <<file, dir, raceVars>>

\* between two runs an entry is added to or removed from the directory
DirChange ==
    /\ pc = "load"
    /\ \E e \in EntryNames :
          dir' = IF e \in dir THEN dir \ {e} ELSE dir \cup {e}
    /\ dir' \in Dirs
    /\ idem' = FALSE
    /\ UNCHANGED <<file, pc, data, existing, listing, idx, printed, failedAt, pre, runs, raceVars>>

Next ==
    \/ Load
    \/ BuildExisting
    \/ ListDir
    \/ ListDirFails
    \/ ScanStep
    \/ Save
    \/ SaveOpenFails
    \/ SaveWriteFails
    \/ PrintDone
    \/ Invoke
    \/ DirChange

Spec == Init /\ [][Next]_vars

-----------------------------------------------------------------------------
(* Two instances against the same catalog file; load, scan and save of an  *)
(* instance are single steps                                               *)

\* lines 8-12 of instance p
RLoad(p) ==
    /\ inst[p].pc = "load"
    /\ LET f == OpenRead(file)
       IN  /\ file' = f
           /\ IF LoadOK(f) /\ BuildOK(JsonLoad(f))
              THEN inst' = [inst EXCEPT ![p].pc = "scan",
                                        ![p].data = JsonLoad(f),
                                        ![p].existing = ExistingFiles(JsonLoad(f))]
              ELSE inst' = [inst EXCEPT ![p].pc = "failed"]
    /\ UNCHANGED <<dir, pc, data, existing, listing, idx, printed, failedAt,
                   pre, idem, runs, startUnique, lastSaver, written>>

\* lines 15-20 of instance p
RScan(p) ==
    /\ inst[p].pc = "scan"
    /\ \E l \in Listings(dir) :
          LET r == ScanFrom(inst[p].data, inst[p].existing, l, 1)
          IN  inst' = [inst EXCEPT ![p].pc = IF r.ok THEN "save" ELSE "failed",
                                    ![p].data = r.data,
                                    ![p].listing = l]
    /\ UNCHANGED <<file, dir, pc, data, existing, listing, idx, printed, failedAt,
                   pre, idem, runs, startUnique, lastSaver, written>>

\* lines 23-26 of instance p
RSave(p) ==
    /\ inst[p].pc = "save"
    /\ file' = JsonDump(OpenWrite(file), inst[p].data)
    /\ inst' = [inst EXCEPT ![p].pc = "done"]
    /\ lastSaver' = p
    /\ written' = [written EXCEPT ![p] = inst[p].data]
    /\ UNCHANGED <<dir, pc, data, existing, listing, idx, printed, failedAt,
                   pre, idem, runs, startUnique>>

\* an entry is added to the directory while an instance has still to scan it
RDirAdd ==
    /\ \E p \in Procs : inst[p].pc \in {"load", "scan"}
    /\ \E e \in EntryNames \ dir : dir' = dir \cup {e}
    /\ dir' \in Dirs
    /\ UNCHANGED <<file, pc, data, existing, listing, idx, printed, failedAt,
                   pre, idem, runs, startUnique, inst, lastSaver, written>>

NextRace ==
    \/ \E p \in Procs : RLoad(p)
    \/ \E p \in Procs : RScan(p)
    \/ \E p \in Procs : RSave(p)
    \/ RDirAdd

RaceInitFiles ==
    {Missing}
    \cup {FileOf("json", "compact", Catalog(items)) : items \in SeqsUpTo(InitElems, 1)}

InitRace ==
    /\ Init
    /\ file \in RaceInitFiles

SpecRace == InitRace /\ [][NextRace]_vars

-----------------------------------------------------------------------------
(* Vocabulary of the properties *)

\* the elements of the clips value of a catalog file
Clips(f) == f.doc.clips.items

\* the file values of the records of a catalog file
FileValues(f) == {Clips(f)[i].file : i \in {j \in 1..Len(Clips(f)) : HasFileKey(Clips(f)[j])}}

\* the name ends with the four characters . m p 3
IsMp3(e) ==
    /\ Len(e) >= 4
    /\ e[Len(e) - 3] = "."
    /\ e[Len(e) - 2] = "m"
    /\ e[Len(e) - 1] = "p"
    /\ e[Len(e)] = "3"

\* the X of an entry X + '.mp3'
Stem(e) == [i \in 1..(Len(e) - 4) |-> e[i]]

\* the path under which an entry is catalogued
PathOf(e) == <<"a", "u", "d", "i", "o", "-", "c", "l", "i", "p", "s", "/">> \o e

\* the entries of this run's directory that were not catalogued before the run
NewEntries == {e \in dir : IsMp3(e) /\ PathOf(e) \notin FileValues(pre)}

\* the positions of the records this run has appended to its in-memory list
Appended == (Len(Clips(pre)) + 1)..Len(data.clips.items)

\* the run completed normally
Completed == pc = "done"

\* the catalog file lacks a list of records under clips
BadShape(f) ==
    \/ f.kind # "json"
    \/ f.doc.t # "obj"
    \/ ~f.doc.hasClips
    \/ f.doc.clips.t # "list"
    \/ \E i \in 1..Len(Clips(f)) : ~(Clips(f)[i].t = "obj" /\ Clips(f)[i].hasFile)

-----------------------------------------------------------------------------
(* C1 - Completeness: after a run that completed, every '.mp3' entry of the *)
(* directory whose path was not a file value of the catalog before the run  *)
(* has exactly one record with that file value in the catalog file.         *)
C1_Completeness ==
    Completed =>
        \A e \in NewEntries :
            Cardinality({i \in 1..Len(Clips(file)) : Clips(file)[i].file = PathOf(e)}) = 1

\* a completed run whose directory held a new '.mp3' entry, a catalogued one
\* and the entry '.mp3' itself
C1_Witness ==
    /\ Completed
    /\ \E e \in NewEntries : Len(e) = 4
    /\ \E e \in dir : IsMp3(e) /\ e \notin NewEntries

(* C2 - No-loss: after a run that completed, the clip list read before the  *)
(* run is a prefix of the clip list in the file, and nothing else of the    *)
(* document changed.                                                        *)
C2_NoLoss ==
    Completed =>
        /\ file.kind = "json"
        /\ Len(Clips(file)) >= Len(Clips(pre))
        /\ SubSeq(Clips(file), 1, Len(Clips(pre))) = Clips(pre)
        /\ file.doc.t = pre.doc.t
        /\ file.doc.hasClips = pre.doc.hasClips
        /\ file.doc.clips.t = pre.doc.clips.t

\* a completed run that appended to a catalog of at least two records
C2_Witness ==
    /\ Completed
    /\ Len(Clips(pre)) >= 2
    /\ Len(Clips(file)) > Len(Clips(pre))

(* C3 - Idempotence: a run that completes right after a completed run, with  *)
(* the directory unchanged in between, leaves the catalog file as the first  *)
(* run wrote it.                                                             *)
C3_Idempotence ==
    (Completed /\ idem) => file = pre

\* a second run completed over an unchanged directory with two '.mp3' entries
C3_Witness ==
    /\ Completed
    /\ idem
    /\ Cardinality({e \in dir : IsMp3(e)}) >= 2
    /\ Len(Clips(file)) >= 2

(* C4 - Uniqueness: when the file values of the first catalog are pairwise   *)
(* distinct, no two records share a file value, in the catalog file and in   *)
(* the list the run is appending to, whatever runs and directory changes     *)
(* came before.                                                              *)
C4_Uniqueness ==
    startUnique =>
        /\ UniqueFiles(Clips(file))
        /\ UniqueFiles(data.clips.items)

\* a later run, after the directory changed, completed with two records appended
C4_Witness ==
    /\ startUnique
    /\ Completed
    /\ runs >= 2
    /\ ~idem
    /\ Len(Clips(file)) >= Len(Clips(pre)) + 2
    /\ Len(Clips(pre)) >= 1

(* C5 as stated - Name derivation: every record a run appends is the record *)
(* of an entry X + '.mp3' of the directory, with name X and with file the    *)
(* prefix joined with the entry name; X may be empty.                        *)
C5_NameIsStem ==
    \A i \in Appended :
        \E e \in dir :
            /\ IsMp3(e)
            /\ data.clips.items[i].file = PathOf(e)
            /\ data.clips.items[i].name = Stem(e)

(* C5 amended - every record a run appends is the record of an entry         *)
(* X + '.mp3' of the directory, with file the prefix joined with the entry   *)
(* name, and with name X when X has a character other than '.', and the      *)
(* whole entry name when X is empty or consists of dots only.                *)
C5_NameDerivation ==
    \A i \in Appended :
        \E e \in dir :
            /\ IsMp3(e)
            /\ data.clips.items[i].file = PathOf(e)
            /\ data.clips.items[i].name =
                   IF \E k \in 1..Len(Stem(e)) : Stem(e)[k] # "." THEN Stem(e) ELSE e

\* a run appended a record named by the whole entry and a record named by a
\* stem that contains a dot
C5_Witness ==
    /\ Completed
    /\ \E i \in Appended : IsMp3(data.clips.items[i].name)
    /\ \E i \in Appended :
          /\ ~IsMp3(data.clips.items[i].name)
          /\ \E k \in 1..Len(data.clips.items[i].name) : data.clips.items[i].name[k] = "."

(* C6 - Non-audio filtering: every record a run appends has the file value   *)
(* of a directory entry ending in the case-sensitive suffix '.mp3', and the  *)
(* loop iteration of an entry without that suffix leaves the list as it is.  *)
C6_NonAudioFiltering ==
    /\ [](\A i \in Appended :
             \E e \in dir : IsMp3(e) /\ data.clips.items[i].file = PathOf(e))
    /\ [][(pc = "scan" /\ idx <= Len(listing) /\ ~IsMp3(listing[idx]))
              => data' = data]_vars

\* a completed run appended a record while the directory held an entry
\* ending in '.MP3'
C6_Witness ==
    /\ Completed
    /\ Appended # {}
    /\ \E e \in dir : ~IsMp3(e) /\ Len(e) >= 4 /\ e[Len(e) - 2] = "M"

(* C7 - Catalog-shape failure: a run over a catalog file that is missing,    *)
(* unreadable, not JSON, or without a list of records with file fields       *)
(* under clips never completes normally.                                     *)
C7_ShapeFailure ==
    BadShape(pre) => pc \notin {"print", "done"}

(* C8 - State unchanged on pre-save failure: until the scan has completed    *)
(* the catalog file is what it was before the run, in particular after a     *)
(* failure of the load, of the set construction or of the listing, and then  *)
(* no message is printed; once the message is printed the save has written   *)
(* the document.                                                             *)
C8_PreSaveFailure ==
    /\ (pc \in {"load", "build", "list", "scan"}) => (file = pre /\ ~printed)
    /\ (pc = "failed" /\ failedAt \in {"load", "build", "list", "scan"})
           => (file = pre /\ ~printed)
    /\ pc = "failed" => ~printed
    /\ printed => (pc = "done" /\ file = FileOf("json", "indent4", data))

\* a later run failed before its save over a catalog with records
C8_Witness ==
    /\ pc = "failed"
    /\ failedAt \in {"load", "build", "list"}
    /\ runs >= 2
    /\ file.kind = "json"
    /\ Len(Clips(file)) >= 2

(* C9 - Append order: the records a run appended lie after the records read  *)
(* before the run, in the order in which the listing yielded their entries.  *)
C9_AppendOrder ==
    Completed =>
        \A a, b \in 1..Len(listing) :
            (a < b /\ listing[a] \in NewEntries /\ listing[b] \in NewEntries)
                => \E i, j \in 1..Len(Clips(file)) :
                       /\ Len(Clips(pre)) < i
                       /\ i < j
                       /\ Clips(file)[i].file = PathOf(listing[a])
                       /\ Clips(file)[j].file = PathOf(listing[b])

\* a completed run appended two records to a catalog that had one
C9_Witness ==
    /\ Completed
    /\ Len(Clips(pre)) >= 1
    /\ \E a, b \in 1..Len(listing) :
          a < b /\ listing[a] \in NewEntries /\ listing[b] \in NewEntries

(* C10 - Race on the final write: once both instances have ended, the        *)
(* catalog file is the document of the instance that saved last, whatever    *)
(* the other instance saved before.                                          *)
C10_LastWriterWins ==
    ((\A p \in Procs : inst[p].pc \in {"done", "failed"}) /\ lastSaver # 0)
        => file = FileOf("json", "indent4", inst[lastSaver].data)

\* both instances saved, and a record the first saver appended for an entry
\* the other instance did not see is absent from the final catalog
C10_Witness ==
    /\ \A p \in Procs : inst[p].pc = "done"
    /\ \E q \in Procs \ {lastSaver} :
          \E i \in 1..Len(written[q].clips.items) :
              /\ \E e \in dir :
                    /\ IsMp3(e)
                    /\ written[q].clips.items[i].file = PathOf(e)
                    /\ \E k \in 1..Len(inst[q].listing) : inst[q].listing[k] = e
                    /\ \A k \in 1..Len(inst[lastSaver].listing) :
                          inst[lastSaver].listing[k] # e
              /\ \A j \in 1..Len(Clips(file)) :
                    Clips(file)[j] # written[q].clips.items[i]

====
